---- MODULE Spec2Model ----
(***************************************************************************)
(* The playback queue of the lofi player: MPVPlayer (player/mpv_backend.py) *)
(* and Playlist (player/queue.py), and its library index: MusicLibrary      *)
(* (sources/local.py).  Each method is an operator from the object before   *)
(* the call to the object after it; each action is one call.  SpecRace      *)
(* takes the calls of MPVPlayer apart into the steps two threads interleave.*)
(***************************************************************************)
EXTENDS Integers, Sequences, FiniteSets, TLC

\* Longest queue explored.
MaxQueue == 3

\* Python's None, as a value comparable with a Track.
None == [title |-> 0, source |-> "None"]

\* Track(title, artist, path, source): the title identifies the track; the
\* path of a local track is a file, the path of a youtube track is a URL.
Track(n, src) == [title |-> n, source |-> src]

\* Two files of the music folder.
LocalTracks == {Track(1, "local"), Track(2, "local")}

\* YouTubeVideo.to_track(): source="youtube", path=self.url.
to_track(n) == Track(n, "youtube")

Tracks == LocalTracks \cup {to_track(1)}

\* Index arguments handed to the index-taking operations: every valid index,
\* and one on either side of the valid range.
Indices == (0 - 1)..MaxQueue

LoopMode == [OFF |-> "off", SINGLE |-> "single"]

VARIABLES
    subject,    \* which object this behaviour exercises: the two share no state
    player,     \* the MPVPlayer
    playlist,   \* the Playlist
    last,       \* the call under observation: its arguments, the object before it
    threads,    \* the mpv event thread and the input thread, each inside a call
    library,    \* the MusicLibrary
    disk,       \* the music folder and the index file, as the file system has them
    app,        \* the LofiPlayerApp: active tab, help panel, running
    search_display,     \* the SearchDisplay
    library_display     \* the LibraryDisplay

\* The application and its two views.
views == <<app, search_display, library_display>>

vars == <<subject, player, playlist, last, threads, library, disk, views>>

\* The value of a variable that the behaviours of a specification leave out.
Unused == <<>>

----------------------------------------------------------------------------
(* Python list operations, on 0-based indices *)

\* list.pop(index) for 0 <= index < len(list): the list without that entry.
pop(list, index) ==
    SubSeq(list, 1, index) \o SubSeq(list, index + 2, Len(list))

\* list.insert(index, x) for 0 <= index <= len(list).
insert(list, index, x) ==
    SubSeq(list, 1, index) \o <<x>> \o SubSeq(list, index + 1, Len(list))

\* list[index] for 0 <= index < len(list).
item(list, index) == list[index + 1]

----------------------------------------------------------------------------
(* MPVPlayer *)

\* MPVPlayer.__init__; mpv is the file the mpv binding has loaded, log the
\* calls made to the binding and the callbacks fired during the last call.
MPVPlayer_init ==
    [queue |-> <<>>, current_index |-> 0 - 1, current_track_ |-> None,
     loop_mode |-> LoopMode.OFF, mpv |-> None, log |-> <<>>]

Called(self, what, arg) ==
    [self EXCEPT !.log = Append(@, [call |-> what, arg |-> arg])]

\* The object as a call finds it: the log of the previous call is gone.
Fresh(self) == [self EXCEPT !.log = <<>>]

\* os.path.exists(track.path): a URL is not a file; a local file is there or
\* not, as the file system has it at the time of the call.
os_path_exists(track, on_disk) == track.source = "local" /\ on_disk

\* MPVPlayer.current_track
current_track(self) ==
    IF self.current_track_ # None THEN self.current_track_
    ELSE IF 0 <= self.current_index /\ self.current_index < Len(self.queue)
         THEN item(self.queue, self.current_index)
         ELSE None

\* MPVPlayer.play_track
play_track(self, track, add_to_queue, on_disk) ==
    IF ~os_path_exists(track, on_disk) THEN self
    ELSE LET queued == IF add_to_queue
                       THEN [self EXCEPT !.queue = Append(@, track),
                                         !.current_index = Len(self.queue) + 1 - 1]
                       ELSE self
             loaded == Called([queued EXCEPT !.current_track_ = track,
                                             !.mpv = track], "play", track)
         IN  Called(loaded, "track_start", track)

\* MPVPlayer.stop
stop(self) ==
    [Called(self, "stop", None) EXCEPT !.mpv = None,
                                       !.current_track_ = None,
                                       !.current_index = 0 - 1]

\* MPVPlayer.play_index
play_index(self, index, on_disk) ==
    IF 0 <= index /\ index < Len(self.queue)
    THEN play_track([self EXCEPT !.current_index = index],
                    item(self.queue, index), FALSE, on_disk)
    ELSE self

\* MPVPlayer.add_to_queue
add_to_queue(self, track, on_disk) ==
    LET appended == [self EXCEPT !.queue = Append(@, track)]
    IN  IF appended.current_index = 0 - 1 /\ Len(appended.queue) = 1
        THEN play_index(appended, 0, on_disk)
        ELSE appended

\* remove_from_queue without the stop() of its first branch.
remove_from_queue_no_stop(self, index) ==
    IF 0 <= index /\ index < Len(self.queue)
    THEN LET adjusted == IF index < self.current_index
                         THEN [self EXCEPT !.current_index = @ - 1]
                         ELSE self
         IN  [adjusted EXCEPT !.queue = pop(@, index)]
    ELSE self

\* MPVPlayer.remove_from_queue
remove_from_queue(self, index) ==
    IF 0 <= index /\ index < Len(self.queue)
    THEN LET adjusted == IF index = self.current_index THEN stop(self)
                         ELSE IF index < self.current_index
                              THEN [self EXCEPT !.current_index = @ - 1]
                              ELSE self
         IN  [adjusted EXCEPT !.queue = pop(@, index)]
    ELSE self

\* MPVPlayer.clear_queue
clear_queue(self) ==
    [stop(self) EXCEPT !.queue = <<>>, !.current_index = 0 - 1]

\* MPVPlayer.next
next(self, on_disk) ==
    IF self.current_index + 1 < Len(self.queue)
    THEN play_index(self, self.current_index + 1, on_disk)
    ELSE self

\* self.player.seek(0, ...) in MPVPlayer.prev: the binding raises when no
\* file is loaded, and both handlers swallow it.
seek_start(self) ==
    IF self.mpv = None THEN self ELSE Called(self, "seek", None)

\* MPVPlayer.prev
prev(self, on_disk) ==
    IF Len(self.queue) > 0
    THEN IF self.current_index > 0
         THEN play_index(self, self.current_index - 1, on_disk)
         ELSE seek_start(self)
    ELSE self

\* move_in_queue with the second branch's bound off by one
\* (from_index < current_index < to_index).
move_in_queue_strict(self, from_index, to_index) ==
    IF /\ 0 <= from_index /\ from_index < Len(self.queue)
       /\ 0 <= to_index /\ to_index < Len(self.queue)
    THEN LET track == item(self.queue, from_index)
             moved == insert(pop(self.queue, from_index), to_index, track)
             cur   == self.current_index
         IN  [self EXCEPT
                !.queue = moved,
                !.current_index =
                    IF from_index = cur THEN to_index
                    ELSE IF from_index < cur /\ cur < to_index THEN cur - 1
                    ELSE IF to_index <= cur /\ cur < from_index THEN cur + 1
                    ELSE cur]
    ELSE self

\* MPVPlayer.move_in_queue
move_in_queue(self, from_index, to_index) ==
    IF /\ 0 <= from_index /\ from_index < Len(self.queue)
       /\ 0 <= to_index /\ to_index < Len(self.queue)
    THEN LET track == item(self.queue, from_index)
             moved == insert(pop(self.queue, from_index), to_index, track)
             cur   == self.current_index
         IN  [self EXCEPT
                !.queue = moved,
                !.current_index =
                    IF from_index = cur THEN to_index
                    ELSE IF from_index < cur /\ cur <= to_index THEN cur - 1
                    ELSE IF to_index <= cur /\ cur < from_index THEN cur + 1
                    ELSE cur]
    ELSE self

\* MPVPlayer.cycle_loop_mode
cycle_loop_mode(self) ==
    [self EXCEPT !.loop_mode = IF @ = LoopMode.OFF THEN LoopMode.SINGLE
                               ELSE LoopMode.OFF]

\* MPVPlayer._on_track_end, run by the binding's end-file event: the file
\* that was loaded has ended.
on_track_end(self, on_disk) ==
    LET ended == Called([self EXCEPT !.mpv = None], "track_end", current_track(self))
    IN  IF ended.loop_mode = LoopMode.SINGLE
        THEN IF current_track(ended) # None
             THEN play_track(ended, current_track(ended), FALSE, on_disk)
             ELSE ended
        ELSE IF ended.current_index + 1 < Len(ended.queue)
             THEN play_index(ended, ended.current_index + 1, on_disk)
             ELSE stop(ended)

----------------------------------------------------------------------------
(* Playlist *)

\* Playlist(name): tracks=[], current_index=-1; repeat is a constructor field.
Playlist_init(repeat) ==
    [tracks |-> <<>>, current_index |-> 0 - 1, repeat |-> repeat]

\* Playlist.current_track
Playlist_current_track(self) ==
    IF 0 <= self.current_index /\ self.current_index < Len(self.tracks)
    THEN item(self.tracks, self.current_index)
    ELSE None

\* Playlist.add
Playlist_add(self, track) == [self EXCEPT !.tracks = Append(@, track)]

\* Playlist.add_many
Playlist_add_many(self, tracks) == [self EXCEPT !.tracks = @ \o tracks]

\* Playlist.remove without the decrement of its second branch.
Playlist_remove_no_decrement(self, index) ==
    IF 0 <= index /\ index < Len(self.tracks)
    THEN [self EXCEPT
            !.current_index = IF index = @ THEN 0 - 1 ELSE @,
            !.tracks = pop(@, index)]
    ELSE self

\* Playlist.remove
Playlist_remove(self, index) ==
    IF 0 <= index /\ index < Len(self.tracks)
    THEN [self EXCEPT
            !.current_index = IF index = @ THEN 0 - 1
                              ELSE IF index < @ THEN @ - 1 ELSE @,
            !.tracks = pop(@, index)]
    ELSE self

\* Playlist.clear
Playlist_clear(self) == [self EXCEPT !.tracks = <<>>, !.current_index = 0 - 1]

\* Playlist.move with the second branch's bound off by one
\* (from_index < current_index < to_index).
Playlist_move_strict(self, from_index, to_index) ==
    IF /\ 0 <= from_index /\ from_index < Len(self.tracks)
       /\ 0 <= to_index /\ to_index < Len(self.tracks)
    THEN LET track == item(self.tracks, from_index)
             moved == insert(pop(self.tracks, from_index), to_index, track)
             cur   == self.current_index
         IN  [self EXCEPT
                !.tracks = moved,
                !.current_index =
                    IF from_index = cur THEN to_index
                    ELSE IF from_index < cur /\ cur < to_index THEN cur - 1
                    ELSE IF to_index <= cur /\ cur < from_index THEN cur + 1
                    ELSE cur]
    ELSE self

\* Playlist.move
Playlist_move(self, from_index, to_index) ==
    IF /\ 0 <= from_index /\ from_index < Len(self.tracks)
       /\ 0 <= to_index /\ to_index < Len(self.tracks)
    THEN LET track == item(self.tracks, from_index)
             moved == insert(pop(self.tracks, from_index), to_index, track)
             cur   == self.current_index
         IN  [self EXCEPT
                !.tracks = moved,
                !.current_index =
                    IF from_index = cur THEN to_index
                    ELSE IF from_index < cur /\ cur <= to_index THEN cur - 1
                    ELSE IF to_index <= cur /\ cur < from_index THEN cur + 1
                    ELSE cur]
    ELSE self

\* Playlist.next
Playlist_next(self) ==
    IF self.current_index + 1 < Len(self.tracks)
    THEN [self EXCEPT !.current_index = @ + 1]
    ELSE IF self.repeat /\ Len(self.tracks) > 0
         THEN [self EXCEPT !.current_index = 0]
         ELSE self

\* Playlist.prev
Playlist_prev(self) ==
    IF self.current_index > 0
    THEN [self EXCEPT !.current_index = @ - 1]
    ELSE IF self.repeat /\ Len(self.tracks) > 0
         THEN [self EXCEPT !.current_index = Len(self.tracks) - 1]
         ELSE self

\* Playlist.set_index without the lower half of its range check.
Playlist_set_index_no_lower(self, index) ==
    IF index < Len(self.tracks)
    THEN [self EXCEPT !.current_index = index]
    ELSE self

\* Playlist.set_index
Playlist_set_index(self, index) ==
    IF 0 <= index /\ index < Len(self.tracks)
    THEN [self EXCEPT !.current_index = index]
    ELSE self

----------------------------------------------------------------------------
(* The calls *)

\* The record of a call: its name, its arguments (those it does not take are
\* left at None / 0 / FALSE), the object it was made on, and what it called on
\* the mpv binding and which callbacks it fired.
Call(op, track, index, to_index, flag, on_disk, pre) ==
    [op |-> op, track |-> track, index |-> index, to_index |-> to_index,
     flag |-> flag, on_disk |-> on_disk, pre |-> pre, log |-> <<>>]

\* No call is under observation.
NoCall == Call("none", None, 0, 0, FALSE, FALSE, None)

Init ==
    /\ subject \in {"MPVPlayer", "Playlist"}
    /\ player = MPVPlayer_init
    /\ playlist \in {Playlist_init(r) : r \in BOOLEAN}
    /\ last = NoCall
    /\ threads = Unused /\ library = Unused /\ disk = Unused
    /\ app = Unused /\ search_display = Unused /\ library_display = Unused

\* A call on the MPVPlayer that takes it to `after`.  A behaviour is a run of
\* calls of which the last one may be put under observation: `last` then holds
\* that call, and the behaviour ends there.
PlayerCall(after, call) ==
    /\ subject = "MPVPlayer"
    /\ last = NoCall
    /\ player' = Fresh(after)
    /\ last' \in {NoCall, [call EXCEPT !.log = after.log]}
    /\ UNCHANGED <<subject, playlist, threads, library, disk, views>>

\* A call on the Playlist that takes it to `after`.
PlaylistCall(after, call) ==
    /\ subject = "Playlist"
    /\ last = NoCall
    /\ playlist' = after
    /\ last' \in {NoCall, call}
    /\ UNCHANGED <<subject, player, threads, library, disk, views>>

Me == player

AddToQueue ==
    \E track \in Tracks, on_disk \in BOOLEAN :
        /\ Len(player.queue) < MaxQueue
        /\ PlayerCall(add_to_queue(Me, track, on_disk),
                      Call("add_to_queue", track, 0, 0, FALSE, on_disk, Me))

PlayTrack ==
    \E track \in Tracks, flag \in BOOLEAN, on_disk \in BOOLEAN :
        /\ flag => Len(player.queue) < MaxQueue
        /\ PlayerCall(play_track(Me, track, flag, on_disk),
                      Call("play_track", track, 0, 0, flag, on_disk, Me))

PlayIndex ==
    \E index \in Indices, on_disk \in BOOLEAN :
        PlayerCall(play_index(Me, index, on_disk),
                   Call("play_index", None, index, 0, FALSE, on_disk, Me))

RemoveFromQueue ==
    \E index \in Indices :
        PlayerCall(remove_from_queue(Me, index),
                   Call("remove_from_queue", None, index, 0, FALSE, FALSE, Me))

MoveInQueue ==
    \E from_index \in Indices, to_index \in Indices :
        PlayerCall(move_in_queue(Me, from_index, to_index),
                   Call("move_in_queue", None, from_index, to_index, FALSE, FALSE, Me))

ClearQueue ==
    PlayerCall(clear_queue(Me), Call("clear_queue", None, 0, 0, FALSE, FALSE, Me))

NextTrack ==
    \E on_disk \in BOOLEAN :
        PlayerCall(next(Me, on_disk), Call("next", None, 0, 0, FALSE, on_disk, Me))

PrevTrack ==
    \E on_disk \in BOOLEAN :
        PlayerCall(prev(Me, on_disk), Call("prev", None, 0, 0, FALSE, on_disk, Me))

Stop ==
    PlayerCall(stop(Me), Call("stop", None, 0, 0, FALSE, FALSE, Me))

CycleLoopMode ==
    PlayerCall(cycle_loop_mode(Me),
               Call("cycle_loop_mode", None, 0, 0, FALSE, FALSE, Me))

\* on_end_file, the handler registered for the binding's end-file event.
EndFile ==
    \E on_disk \in BOOLEAN :
        PlayerCall(on_track_end(Me, on_disk),
                   Call("on_track_end", None, 0, 0, FALSE, on_disk, Me))

PlayerNext ==
    \/ AddToQueue
    \/ PlayTrack
    \/ PlayIndex
    \/ RemoveFromQueue
    \/ MoveInQueue
    \/ ClearQueue
    \/ NextTrack
    \/ PrevTrack
    \/ Stop
    \/ CycleLoopMode
    \/ EndFile

PlaylistAdd ==
    \E track \in Tracks :
        /\ Len(playlist.tracks) < MaxQueue
        /\ PlaylistCall(Playlist_add(playlist, track),
                        Call("add", track, 0, 0, FALSE, FALSE, playlist))

PlaylistAddMany ==
    \E t1 \in Tracks, t2 \in Tracks :
        /\ Len(playlist.tracks) + 2 <= MaxQueue
        /\ PlaylistCall(Playlist_add_many(playlist, <<t1, t2>>),
                        Call("add_many", t1, 0, 0, FALSE, FALSE, playlist))

PlaylistRemove ==
    \E index \in Indices :
        PlaylistCall(Playlist_remove(playlist, index),
                     Call("remove", None, index, 0, FALSE, FALSE, playlist))

PlaylistClear ==
    PlaylistCall(Playlist_clear(playlist),
                 Call("clear", None, 0, 0, FALSE, FALSE, playlist))

PlaylistMove ==
    \E from_index \in Indices, to_index \in Indices :
        PlaylistCall(Playlist_move(playlist, from_index, to_index),
                     Call("move", None, from_index, to_index, FALSE, FALSE, playlist))

PlaylistNext ==
    PlaylistCall(Playlist_next(playlist),
                 Call("next", None, 0, 0, FALSE, FALSE, playlist))

PlaylistPrev ==
    PlaylistCall(Playlist_prev(playlist),
                 Call("prev", None, 0, 0, FALSE, FALSE, playlist))

PlaylistSetIndex ==
    \E index \in Indices :
        PlaylistCall(Playlist_set_index(playlist, index),
                     Call("set_index", None, index, 0, FALSE, FALSE, playlist))

PlaylistSteps ==
    \/ PlaylistAdd
    \/ PlaylistAddMany
    \/ PlaylistRemove
    \/ PlaylistClear
    \/ PlaylistMove
    \/ PlaylistNext
    \/ PlaylistPrev
    \/ PlaylistSetIndex

Next == PlayerNext \/ PlaylistSteps

Spec == Init /\ [][Next]_vars

----------------------------------------------------------------------------
(* Properties of the queue *)

InRange(index, list) == 0 <= index /\ index < Len(list)

Distinct(list) == \A i, j \in 1..Len(list) : i # j => list[i] # list[j]

Logged(what, arg) ==
    \E k \in 1..Len(last.log) : last.log[k] = [call |-> what, arg |-> arg]

OnPlayer(ops) == subject = "MPVPlayer" /\ last.op \in ops

OnPlaylist(ops) == subject = "Playlist" /\ last.op \in ops

\* `list` is `before` without its entry at `index`.
Deleted(before, index, list) ==
    /\ Len(list) = Len(before) - 1
    /\ \A k \in 0..(Len(list) - 1) :
          item(list, k) = IF k < index THEN item(before, k) ELSE item(before, k + 1)

\* C1: after any sequence of calls, current_index is -1 or a valid index into
\* the queue, for the MPVPlayer and for the Playlist.
C1_IndexInRange ==
    /\ player.current_index = 0 - 1 \/ InRange(player.current_index, player.queue)
    /\ playlist.current_index = 0 - 1
          \/ InRange(playlist.current_index, playlist.tracks)

\* C1 witness: a removal below the current entry has left the index on the
\* last entry of the shortened Playlist.
C1_Witness ==
    /\ OnPlaylist({"remove"})
    /\ InRange(last.index, last.pre.tracks)
    /\ last.index < last.pre.current_index
    /\ playlist.current_index = Len(playlist.tracks) - 1

\* What add, remove and move owe the current entry: the index that pointed at
\* an entry still points at that entry, unless the call removed that very
\* entry, and then the index is -1; an index of -1 stays -1.
KeepsCurrent(before, cur_before, list, cur, removed) ==
    IF cur_before = 0 - 1 THEN cur = 0 - 1
    ELSE IF removed = cur_before THEN cur = 0 - 1
    ELSE InRange(cur, list) /\ item(list, cur) = item(before, cur_before)

\* C2: on a queue of distinct tracks, add, remove and move leave current_index
\* on the track it pointed to, unless the call removed that track (then -1).
\* (add_to_queue on an idle player with an empty queue starts playback, C5.)
C2_CurrentTrackKept ==
    /\ OnPlayer({"add_to_queue", "remove_from_queue", "move_in_queue"})
            /\ Distinct(player.queue) /\ Distinct(last.pre.queue)
            /\ last.pre.queue # <<>>
        => KeepsCurrent(last.pre.queue, last.pre.current_index,
                        player.queue, player.current_index,
                        IF last.op = "remove_from_queue" THEN last.index ELSE 0 - 2)
    /\ OnPlaylist({"add", "add_many", "remove", "move"})
            /\ Distinct(playlist.tracks) /\ Distinct(last.pre.tracks)
        => KeepsCurrent(last.pre.tracks, last.pre.current_index,
                        playlist.tracks, playlist.current_index,
                        IF last.op = "remove" THEN last.index ELSE 0 - 2)

\* C2 witness: a move of another entry across the current one has shifted the
\* index of the MPVPlayer.
C2_Witness ==
    /\ OnPlayer({"move_in_queue"})
    /\ Distinct(last.pre.queue)
    /\ last.index < last.pre.current_index
    /\ last.pre.current_index = last.to_index
    /\ player.current_index = last.pre.current_index - 1

\* C3: after move(i, j) with valid i # j, move(j, i) gives back the order and
\* the current_index the queue had before the two moves.
C3_MoveBackRestores ==
    /\ OnPlayer({"move_in_queue"})
            /\ InRange(last.index, last.pre.queue)
            /\ InRange(last.to_index, last.pre.queue)
            /\ last.index # last.to_index
        => LET back == move_in_queue(player, last.to_index, last.index)
           IN  /\ back.queue = last.pre.queue
               /\ back.current_index = last.pre.current_index
    /\ OnPlaylist({"move"})
            /\ InRange(last.index, last.pre.tracks)
            /\ InRange(last.to_index, last.pre.tracks)
            /\ last.index # last.to_index
        => LET back == Playlist_move(playlist, last.to_index, last.index)
           IN  /\ back.tracks = last.pre.tracks
               /\ back.current_index = last.pre.current_index

\* C3 witness: a move that changed both the order and the current index of a
\* Playlist of three entries.
C3_Witness ==
    /\ OnPlaylist({"move"})
    /\ Len(playlist.tracks) = 3
    /\ playlist.tracks # last.pre.tracks
    /\ last.pre.current_index # 0 - 1
    /\ last.index # last.pre.current_index
    /\ playlist.current_index # last.pre.current_index

\* C4: remove(index) with a valid index deletes that entry; removing the
\* current entry stops the player (index -1, no current track), removing one
\* below it decrements the index, removing one above it leaves the index.
C4_Remove ==
    /\ OnPlayer({"remove_from_queue"}) /\ InRange(last.index, last.pre.queue)
        => /\ Deleted(last.pre.queue, last.index, player.queue)
           /\ last.index = last.pre.current_index
                => /\ player.current_index = 0 - 1
                   /\ current_track(player) = None
                   /\ player.mpv = None
                   /\ Logged("stop", None)
           /\ last.index < last.pre.current_index
                => player.current_index = last.pre.current_index - 1
           /\ last.index > last.pre.current_index
                => player.current_index = last.pre.current_index
    /\ OnPlaylist({"remove"}) /\ InRange(last.index, last.pre.tracks)
        => /\ Deleted(last.pre.tracks, last.index, playlist.tracks)
           /\ last.index = last.pre.current_index
                => /\ playlist.current_index = 0 - 1
                   /\ Playlist_current_track(playlist) = None
           /\ last.index < last.pre.current_index
                => playlist.current_index = last.pre.current_index - 1
           /\ last.index > last.pre.current_index
                => playlist.current_index = last.pre.current_index

\* C4 witness: the only entry of the queue, which was playing, has been removed.
C4_Witness ==
    /\ OnPlayer({"remove_from_queue"})
    /\ Len(last.pre.queue) = 1
    /\ last.index = 0
    /\ last.pre.current_index = 0
    /\ last.pre.mpv = item(last.pre.queue, 0)
    /\ player.queue = <<>>

\* C5: add_to_queue appends the track; on an empty queue the player then plays
\* it at index 0, on a non-empty queue current_index is unchanged.
C5_Add ==
    OnPlayer({"add_to_queue"})
        => /\ player.queue = Append(last.pre.queue, last.track)
           /\ last.pre.queue = <<>>
                => /\ player.current_index = 0
                   /\ current_track(player) = last.track
                   /\ player.mpv = last.track
           /\ last.pre.queue # <<>>
                => player.current_index = last.pre.current_index

\* C6: with loop mode off, the end of the track at index i plays index i + 1
\* when there is one and stops the player (index -1, no current track) when
\* there is none; the queue is unchanged.
C6_EndOfTrackOff ==
    OnPlayer({"on_track_end"}) /\ last.pre.loop_mode = LoopMode.OFF
            /\ InRange(last.pre.current_index, last.pre.queue)
        => /\ player.queue = last.pre.queue
           /\ IF last.pre.current_index + 1 < Len(last.pre.queue)
              THEN /\ player.current_index = last.pre.current_index + 1
                   /\ player.mpv = item(player.queue, player.current_index)
                   /\ current_track(player) = item(player.queue, player.current_index)
              ELSE /\ player.current_index = 0 - 1
                   /\ current_track(player) = None

\* C7: with loop mode single-track and a current track, the end of the track
\* leaves the queue and current_index unchanged and plays that track again.
C7_EndOfTrackSingle ==
    OnPlayer({"on_track_end"}) /\ last.pre.loop_mode = LoopMode.SINGLE
            /\ current_track(last.pre) # None
        => /\ player.queue = last.pre.queue
           /\ player.current_index = last.pre.current_index
           /\ Logged("play", current_track(last.pre))
           /\ player.mpv = current_track(last.pre)

\* C8: next() plays index current_index + 1 when it is valid; otherwise it
\* does not advance in single-track mode and stops the player (index -1) in
\* loop mode off.
C8_Next ==
    OnPlayer({"next"})
        => IF last.pre.current_index + 1 < Len(last.pre.queue)
           THEN /\ player.current_index = last.pre.current_index + 1
                /\ player.mpv = item(player.queue, player.current_index)
           ELSE IF last.pre.loop_mode = LoopMode.SINGLE
                THEN player.current_index = last.pre.current_index
                ELSE player.current_index = 0 - 1

\* C9: prev() plays index current_index - 1 when current_index > 0; otherwise
\* on a non-empty queue it leaves current_index and restarts the track that is
\* loaded; on an empty queue it changes nothing.
C9_Prev ==
    OnPlayer({"prev"})
        => IF last.pre.current_index > 0
           THEN /\ player.current_index = last.pre.current_index - 1
                /\ player.mpv = item(player.queue, player.current_index)
           ELSE IF last.pre.queue # <<>>
                THEN /\ player.current_index = last.pre.current_index
                     /\ player.queue = last.pre.queue
                     /\ last.pre.mpv # None => Logged("seek", None)
                ELSE player = last.pre /\ last.log = <<>>

\* C10: an index-taking call with an index outside 0..len-1 (either index, for
\* a move) changes nothing and calls nothing.
C10_OutOfRangeNoOp ==
    /\ OnPlayer({"play_index", "remove_from_queue"})
            /\ ~InRange(last.index, last.pre.queue)
        => player = last.pre /\ last.log = <<>>
    /\ OnPlayer({"move_in_queue"})
            /\ (~InRange(last.index, last.pre.queue)
                    \/ ~InRange(last.to_index, last.pre.queue))
        => player = last.pre /\ last.log = <<>>
    /\ OnPlaylist({"set_index", "remove"})
            /\ ~InRange(last.index, last.pre.tracks)
        => playlist = last.pre
    /\ OnPlaylist({"move"})
            /\ (~InRange(last.index, last.pre.tracks)
                    \/ ~InRange(last.to_index, last.pre.tracks))
        => playlist = last.pre

\* C10 witness: set_index(-1) on a Playlist whose current index is valid.
C10_Witness ==
    /\ OnPlaylist({"set_index"})
    /\ last.index = 0 - 1
    /\ InRange(last.pre.current_index, last.pre.tracks)

\* The track a call is about to play, None when it plays none: the entry
\* play_index is given, the one next/prev/the end-of-track advance step to,
\* and the entry add_to_queue appends to an empty idle queue.
AboutToPlay ==
    LET pre == last.pre
        at(index) == IF InRange(index, pre.queue) THEN item(pre.queue, index) ELSE None
    IN  CASE last.op = "play_index" -> at(last.index)
          [] last.op = "next" -> at(pre.current_index + 1)
          [] last.op = "on_track_end" /\ pre.loop_mode = LoopMode.OFF
                -> at(pre.current_index + 1)
          [] last.op = "prev" /\ pre.current_index > 0 -> at(pre.current_index - 1)
          [] last.op = "add_to_queue" /\ pre.queue = <<>> /\ pre.current_index = 0 - 1
                -> last.track
          [] OTHER -> None

\* C11: when the file of the local track about to be played is missing,
\* nothing is played and the player is left idle: current_index = -1 and no
\* current track.
C11_MissingFileIdle ==
    OnPlayer({"play_index", "next", "prev", "add_to_queue", "on_track_end"})
            /\ AboutToPlay # None /\ AboutToPlay.source = "local" /\ ~last.on_disk
        => /\ ~Logged("play", AboutToPlay)
           /\ player.current_index = 0 - 1
           /\ current_track(player) = None

----------------------------------------------------------------------------
(* MPVPlayer under two threads.  on_end_file runs _on_track_end on the      *)
(* thread of the mpv binding while handle_input, on the keyboard thread,    *)
(* calls a method that changes the queue; MPVPlayer holds no lock, so the   *)
(* statements of the two calls interleave.  A step is one statement: one    *)
(* test, one assignment, one list operation or one call that touches only   *)
(* the binding.  Every track here is a local file that exists.              *)

\* A thread inside a call: the statement it is at and the locals of the call.
Frame(pc, op, index, to_index, track) ==
    [pc |-> pc, op |-> op, index |-> index, to_index |-> to_index, track |-> track]

Waiting == Frame("wait", "none", 0, 0, None)

\* The queues the two calls start from.
RaceQueues == UNION {[1..n -> LocalTracks] : n \in 0..MaxQueue}

\* The player at rest: idle, or playing the entry at current_index.
PlayerAtRest(q, cur, mode) ==
    LET playing == IF cur = 0 - 1 THEN None ELSE item(q, cur)
    IN  [queue |-> q, current_index |-> cur, current_track_ |-> playing,
         loop_mode |-> mode, mpv |-> playing, log |-> <<>>]

RaceInit ==
    /\ subject = "threads"
    /\ \E q \in RaceQueues, mode \in {LoopMode.OFF, LoopMode.SINGLE} :
          \E cur \in (0 - 1)..(Len(q) - 1) : player = PlayerAtRest(q, cur, mode)
    /\ threads = [event |-> Waiting, input |-> Waiting, raised |-> {}]
    /\ last = NoCall
    /\ playlist = Unused /\ library = Unused /\ disk = Unused
    /\ app = Unused /\ search_display = Unused /\ library_display = Unused

\* A step of the event thread: the shared player and the thread's frame.
EventStep(pc, after, frame) ==
    /\ subject = "threads"
    /\ threads.event.pc = pc
    /\ player' = Fresh(after)
    /\ threads' = [threads EXCEPT !.event = frame]
    /\ UNCHANGED <<subject, playlist, last, library, disk, views>>

\* A step of the input thread.
InputStep(pc, after, frame) ==
    /\ subject = "threads"
    /\ threads.input.pc = pc
    /\ player' = Fresh(after)
    /\ threads' = [threads EXCEPT !.input = frame]
    /\ UNCHANGED <<subject, playlist, last, library, disk, views>>

\* A statement of either thread that raises: the exception leaves the call.
Raises(thread, error) ==
    /\ threads' = [threads EXCEPT ![thread].pc = "done",
                                  !.raised = @ \cup {error}]
    /\ UNCHANGED <<subject, player, playlist, last, library, disk, views>>

At(frame, pc) == [frame EXCEPT !.pc = pc]

\* on_end_file, lines 67-69, and _on_track_end, lines 96-107: the file the
\* binding plays has ended; the tests of loop_mode, of current_track and of
\* current_index + 1 < len(self.queue).
EndFileBegins ==
    LET ended == [player EXCEPT !.mpv = None]
        frame == Frame("wait", "on_track_end", 0, 0, None)
    IN  /\ player.mpv # None
        /\ EventStep("wait", ended,
            IF ended.loop_mode = LoopMode.SINGLE
            THEN IF current_track(ended) # None
                 THEN At(frame, "replay")
                 ELSE At(frame, "done")
            ELSE IF ended.current_index + 1 < Len(ended.queue)
                 THEN At(frame, "call_play_index")
                 ELSE At(frame, "stop"))

\* line 101: self.play_track(self.current_track, add_to_queue=False); the
\* property is read again, and play_track catches the AttributeError of None.
EndFileReplays ==
    EventStep("replay",
              IF current_track(player) = None THEN player
              ELSE play_track(player, current_track(player), FALSE, TRUE),
              At(threads.event, "done"))

\* line 107: self.stop()
EndFileStops ==
    EventStep("stop", stop(player), At(threads.event, "done"))

\* line 105: the argument self.current_index + 1 of play_index
EndFileReadsIndex ==
    EventStep("call_play_index", player,
              [At(threads.event, "check") EXCEPT !.index = player.current_index + 1])

\* play_index, line 241: if 0 <= index < len(self.queue)
PlayIndexChecks ==
    EventStep("check", player,
              IF InRange(threads.event.index, player.queue)
              THEN At(threads.event, "set_index")
              ELSE At(threads.event, "done"))

\* play_index, line 242: self.current_index = index
PlayIndexSets ==
    EventStep("set_index", [player EXCEPT !.current_index = threads.event.index],
              At(threads.event, "get_item"))

\* play_index, line 243: self.queue[index], an IndexError past the end.
PlayIndexGets ==
    /\ subject = "threads"
    /\ threads.event.pc = "get_item"
    /\ IF InRange(threads.event.index, player.queue)
       THEN /\ threads' = [threads EXCEPT
                    !.event = [At(@, "play") EXCEPT
                                  !.track = item(player.queue, threads.event.index)]]
            /\ UNCHANGED <<subject, player, playlist, last, library, disk, views>>
       ELSE Raises("event", "IndexError")

\* play_index, line 243: self.play_track(track, add_to_queue=False)
PlayIndexPlays ==
    EventStep("play", play_track(player, threads.event.track, FALSE, TRUE),
              At(threads.event, "done"))

\* handle_input calls one method that changes the queue.
InputCalls ==
    \/ \E index \in Indices :
          InputStep("wait", player, Frame("remove_check", "remove_from_queue", index, 0, None))
    \/ \E from_index \in Indices, to_index \in Indices :
          InputStep("wait", player,
                    Frame("move_check", "move_in_queue", from_index, to_index, None))
    \/ \E track \in LocalTracks :
          /\ Len(player.queue) < MaxQueue
          /\ InputStep("wait", player, Frame("add_append", "add_to_queue", 0, 0, track))
    \/ InputStep("wait", player, Frame("clear_stop", "clear_queue", 0, 0, None))

\* remove_from_queue, line 226: if 0 <= index < len(self.queue)
RemoveChecks ==
    InputStep("remove_check", player,
              IF InRange(threads.input.index, player.queue)
              THEN At(threads.input, "remove_adjust")
              ELSE At(threads.input, "done"))

\* remove_from_queue, lines 227-230: stop() or current_index -= 1
RemoveAdjusts ==
    InputStep("remove_adjust",
              IF threads.input.index = player.current_index THEN stop(player)
              ELSE IF threads.input.index < player.current_index
                   THEN [player EXCEPT !.current_index = @ - 1]
                   ELSE player,
              At(threads.input, "remove_pop"))

\* remove_from_queue, line 231: self.queue.pop(index)
RemovePops ==
    InputStep("remove_pop", [player EXCEPT !.queue = pop(@, threads.input.index)],
              At(threads.input, "done"))

\* move_in_queue, line 268: both indices in range
MoveChecks ==
    InputStep("move_check", player,
              IF InRange(threads.input.index, player.queue)
                    /\ InRange(threads.input.to_index, player.queue)
              THEN At(threads.input, "move_pop")
              ELSE At(threads.input, "done"))

\* move_in_queue, line 269: track = self.queue.pop(from_index)
MovePops ==
    InputStep("move_pop", [player EXCEPT !.queue = pop(@, threads.input.index)],
              [At(threads.input, "move_insert") EXCEPT
                  !.track = item(player.queue, threads.input.index)])

\* move_in_queue, line 270: self.queue.insert(to_index, track)
MoveInserts ==
    InputStep("move_insert",
              [player EXCEPT !.queue = insert(@, threads.input.to_index,
                                              threads.input.track)],
              At(threads.input, "move_adjust"))

\* move_in_queue, lines 273-278: the three-way update of current_index
MoveAdjusts ==
    LET from_index == threads.input.index
        to_index   == threads.input.to_index
        cur        == player.current_index
    IN  InputStep("move_adjust",
                  [player EXCEPT !.current_index =
                        IF from_index = cur THEN to_index
                        ELSE IF from_index < cur /\ cur <= to_index THEN cur - 1
                        ELSE IF to_index <= cur /\ cur < from_index THEN cur + 1
                        ELSE cur],
                  At(threads.input, "done"))

\* add_to_queue, line 219: self.queue.append(track)
AddAppends ==
    InputStep("add_append", [player EXCEPT !.queue = Append(@, threads.input.track)],
              At(threads.input, "add_check"))

\* add_to_queue, lines 221-222: on an idle player with one entry, play_index(0)
AddChecks ==
    InputStep("add_check",
              IF player.current_index = 0 - 1 /\ Len(player.queue) = 1
              THEN play_index(player, 0, TRUE)
              ELSE player,
              At(threads.input, "done"))

\* clear_queue, line 235: self.stop()
ClearStops ==
    InputStep("clear_stop", stop(player), At(threads.input, "clear_list"))

\* clear_queue, line 236: self.queue.clear()
ClearClears ==
    InputStep("clear_list", [player EXCEPT !.queue = <<>>],
              At(threads.input, "clear_index"))

\* clear_queue, line 237: self.current_index = -1
ClearResets ==
    InputStep("clear_index", [player EXCEPT !.current_index = 0 - 1],
              At(threads.input, "done"))

RaceNext ==
    \/ EndFileBegins
    \/ EndFileReplays
    \/ EndFileStops
    \/ EndFileReadsIndex
    \/ PlayIndexChecks
    \/ PlayIndexSets
    \/ PlayIndexGets
    \/ PlayIndexPlays
    \/ InputCalls
    \/ RemoveChecks
    \/ RemoveAdjusts
    \/ RemovePops
    \/ MoveChecks
    \/ MovePops
    \/ MoveInserts
    \/ MoveAdjusts
    \/ AddAppends
    \/ AddChecks
    \/ ClearStops
    \/ ClearClears
    \/ ClearResets

SpecRace == RaceInit /\ [][RaceNext]_vars

\* Both calls have returned or raised.
BothReturned ==
    subject = "threads" /\ threads.event.pc = "done" /\ threads.input.pc = "done"

\* C12: however the end-of-track handler and a queue mutation interleave, once
\* both have returned current_index is -1 or a valid index, no IndexError was
\* raised, and the file the binding plays is the entry at current_index.
C12_InterleavingSafe ==
    BothReturned
        => /\ player.current_index = 0 - 1
                \/ InRange(player.current_index, player.queue)
           /\ threads.raised = {}
           /\ player.mpv # None
                => /\ InRange(player.current_index, player.queue)
                   /\ item(player.queue, player.current_index) = player.mpv

----------------------------------------------------------------------------
(* MusicLibrary (src/sources/local.py): the index of the audio files under  *)
(* the music folder, and the files it reads and writes.                     *)

\* The latest value of the clock that stamps the files and the scans.
MaxTime == 2

\* Optional[T]: None, or a value.
Nothing == <<>>
Some(value) == <<value>>

\* x or y, on strings.
Or(x, y) == IF x = "" THEN y ELSE x

\* A pathlib.Path: the directories, and the stem and the suffix of the name.
\* str(path) and Path(path_str) are one-to-one, so the text of a path, which
\* keys the index, is written as the path.
Path(dirs, stem, suffix) == [dirs |-> dirs, stem |-> stem, suffix |-> suffix]

MUSIC_FOLDER == <<"home", "Music">>

SUPPORTED_AUDIO_FORMATS == {".mp3", ".flac", ".wav", ".ogg", ".m4a", ".aac", ".wma"}

\* The suffixes _extract_metadata has a reader for.
Readers == {".mp3", ".flac", ".ogg", ".wav", ".m4a", ".mp4"}

\* File names are bytes; a name that is not UTF-8 reaches Python as text with
\* lone surrogates, which the utf-8 codec refuses to write.
Unencodable == {"caf<E9>"}

\* The audio files that may lie under the music folder, in the order rglob
\* lists them.
SongA == Path(MUSIC_FOLDER, "a", ".mp3")
SongC == Path(MUSIC_FOLDER \o <<"rock">>, "c", ".aac")
SongE == Path(MUSIC_FOLDER \o <<"rock">>, "caf<E9>", ".flac")
Files == <<SongA, SongC, SongE>>
FileSet == {Files[i] : i \in 1..Len(Files)}

\* What the tag reader finds in a readable file: "" and <<>> for a missing
\* tag, the track tag split at "/".
Tags(file_path) ==
    IF file_path = SongA
    THEN [title |-> "Song A", artist |-> "Artist", album |-> "", date |-> "2020",
          genre |-> "", track |-> <<3, 12>>, length |-> 180]
    ELSE [title |-> "", artist |-> "", album |-> "", date |-> "",
          genre |-> "", track |-> <<>>, length |-> 200]

\* TrackMetadata
TrackMetadata(path, title, artist, album, duration, year, genre, track_number, modified_time) ==
    [path |-> path, title |-> title, artist |-> artist, album |-> album,
     duration |-> duration, year |-> year, genre |-> genre,
     track_number |-> track_number, modified_time |-> modified_time]

Fields == {"path", "title", "artist", "album", "duration", "year", "genre",
           "track_number", "modified_time"}

\* The fields of TrackMetadata without a default.
Required == {"path", "title", "artist", "album", "duration"}

\* A dict without entries.
EmptyIndex == [path \in {} |-> Nothing]

\* self.index[key] = value
put(index, key, value) ==
    [k \in DOMAIN index \cup {key} |-> IF k = key THEN value ELSE index[k]]

\* What a call returns, or that it raised.
Returned(value) == [raised |-> FALSE, value |-> value]
Raised == [raised |-> TRUE, value |-> Nothing]

\* The contents of LIBRARY_INDEX_FILE: no file, text that is not JSON, or a
\* JSON document.  An object of the document is the set of its members.
NoFile == [kind |-> "absent"]
NotJson == [kind |-> "not json"]
Document(tracks, last_scan) ==
    [kind |-> "json", tracks |-> tracks, last_scan |-> last_scan]

\* dataclasses.asdict
asdict(meta) == {<<name, meta[name]>> : name \in Fields}

Names(object) == {member[1] : member \in object}

Member(object, name, default) ==
    IF name \in Names(object)
    THEN (CHOOSE member \in object : member[1] = name)[2]
    ELSE default

\* TrackMetadata(**meta): a TypeError for a missing or an unknown field.
Fits(object) == Required \subseteq Names(object) /\ Names(object) \subseteq Fields

\* TrackMetadata(**meta) that keeps only the file name of the path.
FromDict_basename(object) ==
    LET whole == Member(object, "path", Nothing)
    IN  TrackMetadata(Path(<<>>, whole.stem, whole.suffix),
                      Member(object, "title", Nothing),
                      Member(object, "artist", Nothing), Member(object, "album", Nothing),
                      Member(object, "duration", Nothing), Member(object, "year", Nothing),
                      Member(object, "genre", Nothing),
                      Member(object, "track_number", Nothing),
                      Member(object, "modified_time", 0))

FromDict(object) ==
    TrackMetadata(Member(object, "path", Nothing), Member(object, "title", Nothing),
                  Member(object, "artist", Nothing), Member(object, "album", Nothing),
                  Member(object, "duration", Nothing), Member(object, "year", Nothing),
                  Member(object, "genre", Nothing),
                  Member(object, "track_number", Nothing),
                  Member(object, "modified_time", 0))

\* _load_index that takes every entry as it comes: no TypeError.
load_index_lenient(self, index_file) ==
    IF index_file.kind = "absent" THEN self
    ELSE IF index_file.kind # "json" THEN [self EXCEPT !.index = EmptyIndex]
    ELSE [index |-> [path \in DOMAIN index_file.tracks |->
                         FromDict(index_file.tracks[path])],
          last_scan_time |-> index_file.last_scan]

\* MusicLibrary._load_index
load_index(self, index_file) ==
    IF index_file.kind = "absent" THEN self
    ELSE IF index_file.kind # "json" THEN [self EXCEPT !.index = EmptyIndex]
    ELSE IF \E path \in DOMAIN index_file.tracks : ~Fits(index_file.tracks[path])
         THEN [self EXCEPT !.index = EmptyIndex]
         ELSE [index |-> [path \in DOMAIN index_file.tracks |->
                              FromDict(index_file.tracks[path])],
               last_scan_time |-> index_file.last_scan]

\* MusicLibrary.__init__
MusicLibrary_init(index_file) ==
    load_index([index |-> EmptyIndex, last_scan_time |-> 0], index_file)

\* MusicLibrary._save_index: the contents of the file afterwards.  json.dump
\* writes as it goes, so an error of the codec leaves the file cut short.
save_index(self) ==
    IF \A path \in DOMAIN self.index :
            path.stem \notin Unencodable /\ self.index[path].title \notin Unencodable
    THEN Document([path \in DOMAIN self.index |-> asdict(self.index[path])],
                  self.last_scan_time)
    ELSE NotJson

\* MusicLibrary._extract_metadata on a file with the modification time mtime
\* (0: the file is gone) whose contents the reader accepts or not.
extract_metadata(file_path, mtime, readable) ==
    LET tags == Tags(file_path)
    IN  IF file_path.suffix \notin Readers THEN Returned(Nothing)
        ELSE IF mtime = 0 THEN Raised
        ELSE IF readable
             THEN Returned(Some(TrackMetadata(
                      file_path, Or(tags.title, file_path.stem),
                      Or(tags.artist, "Unknown Artist"),
                      Or(tags.album, "Unknown Album"), tags.length,
                      IF tags.date = "" THEN Nothing ELSE Some(tags.date),
                      IF tags.genre = "" THEN Nothing ELSE Some(tags.genre),
                      IF tags.track = <<>> THEN Nothing ELSE Some(tags.track[1]),
                      mtime)))
             ELSE Returned(Some(TrackMetadata(
                      file_path, file_path.stem, "Unknown Artist", "Unknown Album",
                      0, Nothing, Nothing, Nothing, mtime)))

\* What goes wrong with one file during a scan: nothing, the reader rejects
\* its contents, or the file is deleted right after rglob has listed it.
Trouble(file, kind) == [file |-> file, kind |-> kind]
NoTrouble == Trouble(Path(<<>>, "", ""), "none")

\* The result of scan: the library and the index file afterwards, what the call
\* returned, and the files handed to _extract_metadata.
Scanned(self, index_file, outcome, extracted) ==
    [self |-> self, index_file |-> index_file, outcome |-> outcome,
     extracted |-> extracted]

\* for result in results: if result: self.index[result.path] = result,
\* for the first n results.
RECURSIVE insert_results(_, _, _)
insert_results(index, results, n) ==
    IF n = 0 THEN index
    ELSE LET before == insert_results(index, results, n - 1)
             result == results[n].value
         IN  IF result = Nothing THEN before
             ELSE put(before, result[1].path, result[1])

\* MusicLibrary.scan at the time now, on the file system fs.
scan(self, force, fs, trouble, now) ==
    IF ~fs.folder THEN Scanned(self, fs.index_file, Returned(0), {})
    ELSE
    LET listed(p) == fs.files[p] # 0 /\ p.suffix \in SUPPORTED_AUDIO_FORMATS
        audio_files == SelectSeq(Files, listed)
        st_mtime(p) == IF trouble = Trouble(p, "vanished") THEN 0 ELSE fs.files[p]
        readable(p) == trouble # Trouble(p, "unreadable")
        cached(p) == p \in DOMAIN self.index
        stat_raises == \E i \in 1..Len(audio_files) :
                            cached(audio_files[i]) /\ st_mtime(audio_files[i]) = 0
        stale(p) == IF cached(p) THEN st_mtime(p) > self.index[p].modified_time
                    ELSE TRUE
        files_to_scan == IF force THEN audio_files ELSE SelectSeq(audio_files, stale)
        extracted == {files_to_scan[i] : i \in 1..Len(files_to_scan)}
        results == [i \in 1..Len(files_to_scan) |->
                        extract_metadata(files_to_scan[i], st_mtime(files_to_scan[i]),
                                         readable(files_to_scan[i]))]
        raising == {i \in 1..Len(files_to_scan) : results[i].raised}
        first == CHOOSE i \in raising : \A j \in raising : i <= j
        current_paths == {audio_files[i] : i \in 1..Len(audio_files)}
        updated == insert_results(self.index, results, Len(files_to_scan))
        kept == [path \in DOMAIN updated \cap current_paths |-> updated[path]]
        done == [index |-> kept, last_scan_time |-> now]
    IN  IF ~force /\ stat_raises
        THEN Scanned(self, fs.index_file, Raised, {})
        ELSE IF raising # {}
        THEN Scanned([self EXCEPT !.index = insert_results(@, results, first - 1)],
                     fs.index_file, Raised, extracted)
        ELSE Scanned(done, save_index(done), Returned(Cardinality(DOMAIN kept)),
                     extracted)

\* A call of the library under observation.
Seen(op, force, trouble, fs, self, result) ==
    [op |-> op, force |-> force, trouble |-> trouble, fs |-> fs, self |-> self,
     outcome |-> result.outcome, extracted |-> result.extracted]

LibraryInit ==
    /\ subject = "MusicLibrary"
    /\ disk = [now |-> 1, folder |-> TRUE, files |-> [p \in FileSet |-> 0],
               index_file |-> NoFile]
    /\ library = MusicLibrary_init(NoFile)
    /\ last = <<>>
    /\ player = Unused /\ playlist = Unused /\ threads = Unused
    /\ app = Unused /\ search_display = Unused /\ library_display = Unused

\* A call of the library.  A behaviour is a run of calls and of changes to the
\* files; its last call may be put under observation, or its last two when
\* they met no trouble: `last` then holds them, and nothing changes the files
\* between or after them.
LibraryCall(call, self, fs) ==
    /\ subject = "MusicLibrary"
    /\ \/ last = <<>>
       \/ Len(last) = 1 /\ last[1].trouble = NoTrouble /\ call.trouble = NoTrouble
    /\ library' = self
    /\ disk' = fs
    /\ last' \in IF last = <<>> THEN {<<>>, <<call>>} ELSE {Append(last, call)}
    /\ UNCHANGED <<subject, player, playlist, threads, views>>

\* Something other than the library changes the files.
Outside(fs) ==
    /\ subject = "MusicLibrary"
    /\ last = <<>>
    /\ disk' = fs
    /\ UNCHANGED <<subject, player, playlist, threads, library, last, views>>

\* library.scan(force): app.py:78 and the callers of the class.
Scan ==
    \E force \in BOOLEAN,
       trouble \in {NoTrouble} \cup {Trouble(p, kind) :
                        p \in {q \in FileSet : disk.folder /\ disk.files[q] # 0},
                        kind \in {"unreadable", "vanished"}} :
        LET result == scan(library, force, disk, trouble, disk.now)
            fs == [disk EXCEPT !.index_file = result.index_file,
                               !.files = [p \in FileSet |->
                                            IF trouble = Trouble(p, "vanished")
                                            THEN 0 ELSE @[p]]]
        IN  LibraryCall(Seen("scan", force, trouble, disk, library, result),
                        result.self, fs)

\* The program starts again: importing config makes the folders, and
\* LofiPlayerApp makes a MusicLibrary, which loads the index file.
Restart ==
    LET self == MusicLibrary_init(disk.index_file)
    IN  LibraryCall(Seen("MusicLibrary", FALSE, NoTrouble, disk, library,
                         Scanned(self, disk.index_file, Returned(Nothing), {})),
                    self, [disk EXCEPT !.folder = TRUE])

Tick ==
    /\ disk.now < MaxTime
    /\ Outside([disk EXCEPT !.now = @ + 1])

\* A file is written, or an older copy of it is put back.
WriteFile ==
    \E p \in FileSet, mtime \in 1..disk.now :
        /\ disk.folder
        /\ disk.files[p] # mtime
        /\ Outside([disk EXCEPT !.files[p] = mtime])

DeleteFile ==
    \E p \in FileSet :
        /\ disk.files[p] # 0
        /\ Outside([disk EXCEPT !.files[p] = 0])

\* The music folder goes, with all that is in it.
DeleteFolder ==
    /\ disk.folder
    /\ Outside([disk EXCEPT !.folder = FALSE, !.files = [p \in FileSet |-> 0]])

\* The index file is damaged: cut short, or an entry loses a field or gains
\* one that TrackMetadata does not have.
DamageIndexFile ==
    \/ /\ disk.index_file.kind = "json"
       /\ Outside([disk EXCEPT !.index_file = NotJson])
    \/ /\ disk.index_file.kind = "json"
       /\ \E path \in DOMAIN disk.index_file.tracks :
             /\ Fits(disk.index_file.tracks[path])
             /\ \E object \in {disk.index_file.tracks[path] \cup {<<"bitrate", 320>>},
                               {m \in disk.index_file.tracks[path] : m[1] # "title"}} :
                   Outside([disk EXCEPT !.index_file.tracks[path] = object])

LibraryNext ==
    \/ Scan
    \/ Restart
    \/ Tick
    \/ WriteFile
    \/ DeleteFile
    \/ DeleteFolder
    \/ DamageIndexFile

SpecLibrary == LibraryInit /\ [][LibraryNext]_vars

----------------------------------------------------------------------------
(* Claims about MusicLibrary *)

\* The observed calls are the given operations, in this order.
OnLibrary(ops) ==
    /\ subject = "MusicLibrary"
    /\ Len(last) = Len(ops)
    /\ \A i \in 1..Len(ops) : last[i].op = ops[i]

\* The files rglob lists for a call.
Candidates(call) ==
    {p \in FileSet : call.fs.folder /\ call.fs.files[p] # 0
                        /\ p.suffix \in SUPPORTED_AUDIO_FORMATS}

\* The index holds an entry for p that is as new as the file.
CacheHit(call, p) ==
    /\ p \in DOMAIN call.self.index
    /\ call.self.index[p].modified_time >= call.fs.files[p]

\* C13: of two scans without force in succession, with no change to the files
\* in between, the second hands no file to _extract_metadata and leaves the
\* index file as the first wrote it.
C13_SecondScanIdle ==
    OnLibrary(<<"scan", "scan">>) /\ ~last[1].force /\ ~last[2].force
            /\ last[1].fs.folder /\ ~last[1].outcome.raised
        => /\ last[2].extracted = {}
           /\ disk.index_file = last[2].fs.index_file

\* C14: a scan hands a listed file to _extract_metadata, and inserts or
\* replaces its entry, unless force is off and the index holds an entry for
\* it whose modified_time is >= the modification time of the file; such a
\* file is not extracted and its entry stays as it is.
C14_SkipExactlyCacheHits ==
    OnLibrary(<<"scan">>) /\ last[1].trouble.kind # "vanished"
            /\ ~last[1].outcome.raised
        => \A p \in Candidates(last[1]) :
              IF ~last[1].force /\ CacheHit(last[1], p)
              THEN /\ p \notin last[1].extracted
                   /\ p \in DOMAIN library.index
                   /\ library.index[p] = last[1].self.index[p]
              ELSE /\ p \in last[1].extracted
                   /\ p \in DOMAIN library.index
                   /\ library.index[p].modified_time = last[1].fs.files[p]

\* C15: a scan drops the entry of every file that is no longer there, the
\* music folder gone included, and returns the number of entries of the index.
C15_DeletedFilePruned ==
    OnLibrary(<<"scan">>) /\ last[1].trouble = NoTrouble
        => /\ \A p \in DOMAIN last[1].self.index :
                 last[1].fs.files[p] = 0 => p \notin DOMAIN library.index
           /\ last[1].outcome = Returned(Cardinality(DOMAIN library.index))

\* C16: a scan during which one file cannot be read, or is deleted after it
\* was listed, raises nothing; the unreadable file gets the minimal record and
\* every other listed file is in the index afterwards.
C16_ExtractionErrorContained ==
    OnLibrary(<<"scan">>) /\ last[1].trouble # NoTrouble
        => LET bad == last[1].trouble.file
           IN  /\ ~last[1].outcome.raised
               /\ last[1].trouble.kind = "unreadable" /\ bad \in last[1].extracted
                    => /\ bad \in DOMAIN library.index
                       /\ library.index[bad] =
                            TrackMetadata(bad, bad.stem, "Unknown Artist",
                                          "Unknown Album", 0, Nothing, Nothing,
                                          Nothing, last[1].fs.files[bad])
               /\ \A p \in Candidates(last[1]) \ {bad} : p \in DOMAIN library.index

\* C17: every key of the index is the path of its entry.
C17_KeyIsPath ==
    subject = "MusicLibrary"
        => \A path \in DOMAIN library.index : library.index[path].path = path

C17_Witness ==
    /\ OnLibrary(<<"scan", "MusicLibrary">>)
    /\ DOMAIN last[2].self.index # {}
    /\ DOMAIN library.index # {}

\* C18: a library made right after a scan has saved the index holds the index
\* and the last-scan time that were saved.
C18_SaveLoadRoundTrip ==
    OnLibrary(<<"scan", "MusicLibrary">>) /\ last[1].fs.folder
            /\ ~last[1].outcome.raised
        => library = last[2].self

\* The index file is there but does not load.
Malformed(index_file) ==
    \/ index_file.kind = "not json"
    \/ /\ index_file.kind = "json"
       /\ \E path \in DOMAIN index_file.tracks : ~Fits(index_file.tracks[path])

\* C19: a library made from a malformed index file has an empty index, and the
\* scan without force that follows hands every listed file to
\* _extract_metadata.
C19_MalformedIndexIgnored ==
    /\ OnLibrary(<<"MusicLibrary">>) /\ Malformed(last[1].fs.index_file)
        => ~last[1].outcome.raised /\ library.index = EmptyIndex
    /\ OnLibrary(<<"MusicLibrary", "scan">>) /\ Malformed(last[1].fs.index_file)
            /\ ~last[2].force
        => /\ last[2].self.index = EmptyIndex
           /\ last[2].extracted = Candidates(last[2])

C19_Witness ==
    /\ OnLibrary(<<"MusicLibrary", "scan">>)
    /\ last[1].fs.index_file.kind = "json" /\ Malformed(last[1].fs.index_file)
    /\ ~last[2].force
    /\ SongA \in last[2].extracted
    /\ last[2].fs.files[SongA] = 1 /\ last[2].fs.now = 2

----------------------------------------------------------------------------
(* MusicLibrary.get_folders on any index *)

\* The names that occur, in the order of Python's str comparison.
CodePointOrder == <<"Jazz", "a.mp3", "jazz", "rock", "rock.mp3", "rock2">>

\* a < b on str
str_lt(a, b) ==
    \E i \in 1..Len(CodePointOrder), j \in 1..Len(CodePointOrder) :
        CodePointOrder[i] = a /\ CodePointOrder[j] = b /\ i < j

\* sorted(strings)
RECURSIVE sorted(_)
sorted(strings) ==
    IF strings = {} THEN <<>>
    ELSE LET least == CHOOSE a \in strings : \A b \in strings \ {a} : str_lt(a, b)
         IN  <<least>> \o sorted(strings \ {least})

\* path.relative_to(folder).parts: a ValueError if path is not below folder.
relative_to(path, folder) ==
    IF Len(folder) <= Len(path.dirs) /\ SubSeq(path.dirs, 1, Len(folder)) = folder
    THEN Returned(SubSeq(path.dirs, Len(folder) + 1, Len(path.dirs))
                      \o <<path.stem \o path.suffix>>)
    ELSE Raised

\* get_folders that counts the file name as a component below the root.
get_folders_any_depth(self) ==
    sorted({relative_to(path, MUSIC_FOLDER).value[1] :
               path \in {q \in DOMAIN self.index :
                            /\ ~relative_to(q, MUSIC_FOLDER).raised
                            /\ Len(relative_to(q, MUSIC_FOLDER).value) > 0}})

\* MusicLibrary.get_folders
get_folders(self) ==
    sorted({relative_to(path, MUSIC_FOLDER).value[1] :
               path \in {q \in DOMAIN self.index :
                            /\ ~relative_to(q, MUSIC_FOLDER).raised
                            /\ Len(relative_to(q, MUSIC_FOLDER).value) > 1}})

\* Paths an index may hold: in the root, one and two levels below it, and
\* outside it.
IndexedPaths ==
    {SongA,
     Path(MUSIC_FOLDER \o <<"rock">>, "b", ".mp3"),
     Path(MUSIC_FOLDER \o <<"rock", "jazz">>, "c", ".mp3"),
     Path(MUSIC_FOLDER \o <<"jazz">>, "d", ".flac"),
     Path(MUSIC_FOLDER \o <<"Jazz">>, "e", ".ogg"),
     Path(MUSIC_FOLDER \o <<"rock2">>, "h", ".mp3"),
     Path(MUSIC_FOLDER, "rock", ".mp3"),
     Path(<<"mnt", "rock2">>, "f", ".mp3"),
     Path(<<"home">>, "g", ".mp3")}

FoldersInit ==
    /\ subject = "get_folders"
    /\ \E paths \in SUBSET IndexedPaths :
          library = [index |-> [path \in paths |->
                                   TrackMetadata(path, path.stem, "Unknown Artist",
                                                 "Unknown Album", 0, Nothing,
                                                 Nothing, Nothing, 1)],
                     last_scan_time |-> 1]
    /\ last = <<>>
    /\ player = Unused /\ playlist = Unused /\ threads = Unused /\ disk = Unused
    /\ app = Unused /\ search_display = Unused /\ library_display = Unused

\* LibraryDisplay.update_library: self.library.get_folders()
GetFolders ==
    /\ subject = "get_folders"
    /\ last = <<>>
    /\ last' = <<[op |-> "get_folders", result |-> get_folders(library)]>>
    /\ UNCHANGED <<subject, player, playlist, threads, library, disk, views>>

\* The letters of the names that can stand right below the music folder.
Spelling(name) ==
    CASE name = "rock" -> <<"r", "o", "c", "k">>
      [] name = "rock2" -> <<"r", "o", "c", "k", "2">>
      [] name = "rock.mp3" -> <<"r", "o", "c", "k", ".", "m", "p", "3">>
      [] name = "jazz" -> <<"j", "a", "z", "z">>
      [] name = "Jazz" -> <<"J", "a", "z", "z">>
      [] name = "a.mp3" -> <<"a", ".", "m", "p", "3">>

\* The components of str(path), which "/" separates.
parts(path) == path.dirs \o <<path.stem \o path.suffix>>

\* str(path).startswith(str(folder_path)), for folder_path the components of
\* a directory: "/" is in no component, so all but the last component of the
\* prefix are components of the path, and the last one starts a component.
startswith(path, folder_path) ==
    LET n == Len(folder_path)
    IN  /\ Len(parts(path)) >= n
        /\ SubSeq(parts(path), 1, n - 1) = SubSeq(folder_path, 1, n - 1)
        /\ LET whole == Spelling(parts(path)[n])
                start == Spelling(folder_path[n])
            IN  /\ Len(whole) >= Len(start)
                /\ SubSeq(whole, 1, Len(start)) = start

\* TrackMetadata.to_track
TrackMetadata_to_track(meta) ==
    [title |-> meta.title, artist |-> meta.artist, path |-> meta.path,
     duration |-> meta.duration, source |-> "local"]

\* MusicLibrary.get_tracks_in_folder: the tracks of the list it returns.
get_tracks_in_folder(self, folder) ==
    {TrackMetadata_to_track(self.index[path]) :
        path \in {q \in DOMAIN self.index :
                     startswith(q, MUSIC_FOLDER \o <<folder>>)}}

\* LibraryDisplay.enter_folder: self.library.get_tracks_in_folder(folder)
GetTracksInFolder ==
    /\ subject = "get_folders"
    /\ last = <<>>
    /\ \E i \in 1..Len(get_folders(library)) :
          LET folder == get_folders(library)[i]
          IN  last' = <<[op |-> "get_tracks_in_folder", folder |-> folder,
                         result |-> get_tracks_in_folder(library, folder)]>>
    /\ UNCHANGED <<subject, player, playlist, threads, library, disk, views>>

FoldersNext ==
    \/ GetFolders
    \/ GetTracksInFolder

SpecFolders == FoldersInit /\ [][FoldersNext]_vars

\* The directory right below the music folder on the way to the file, if any.
FolderOf(path) ==
    IF Len(path.dirs) > Len(MUSIC_FOLDER)
            /\ SubSeq(path.dirs, 1, Len(MUSIC_FOLDER)) = MUSIC_FOLDER
    THEN {path.dirs[Len(MUSIC_FOLDER) + 1]}
    ELSE {}

\* C20: get_folders returns, in ascending order and each once, the
\* directories right below the music folder that hold an indexed file at any
\* depth; files in the music folder itself and files outside it add nothing.
C20_Folders ==
    subject = "get_folders" /\ last # <<>> /\ last[1].op = "get_folders"
        => LET result == last[1].result
           IN  /\ \A i \in 1..Len(result), j \in 1..Len(result) :
                      i < j => str_lt(result[i], result[j])
               /\ {result[i] : i \in 1..Len(result)}
                      = UNION {FolderOf(path) : path \in DOMAIN library.index}

C20_Witness ==
    /\ subject = "get_folders" /\ last # <<>>
    /\ DOMAIN library.index = IndexedPaths
    /\ last[1].op = "get_folders"
    /\ last[1].result = <<"Jazz", "jazz", "rock", "rock2">>

----------------------------------------------------------------------------
(* Further claims about MPVPlayer *)

\* C25: whenever current_index is a valid index, current_track is the entry
\* of the queue at current_index.
C25_CurrentTrackIsQueueEntry ==
    subject = "MPVPlayer" /\ InRange(player.current_index, player.queue)
        => current_track(player) = item(player.queue, player.current_index)

\* C28: play_track on a YouTube track makes it the current track, hands it to
\* the play call of the binding and fires track_start.
C28_RemoteTrackPlays ==
    OnPlayer({"play_track"}) /\ last.track.source = "youtube"
        => /\ current_track(player) = last.track
           /\ player.mpv = last.track
           /\ Logged("play", last.track)
           /\ Logged("track_start", last.track)

----------------------------------------------------------------------------
(* The volume of MPVPlayer (src/player/mpv_backend.py, lines 189-205)       *)

max(a, b) == IF a >= b THEN a ELSE b

min(a, b) == IF a <= b THEN a ELSE b

\* The arguments of the volume calls: the default step 5 among them.
VolumeArgs == {0 - 120, 0 - 7, 0 - 5, 0 - 1, 0, 1, 5, 7, 50, 100, 101, 220}

\* The binding after mpv.MPV(...): the volume property of mpv starts at 100.
Binding_init == [volume |-> 100]

\* MPVPlayer.volume: int(self.player.volume or 50), where 0 counts as false.
volume(self) == IF self.volume = 0 THEN 50 ELSE self.volume

\* The setter without the lower limit.
volume_set_no_floor(self, value) == [self EXCEPT !.volume = min(100, value)]

\* MPVPlayer.volume = value
volume_set(self, value) == [self EXCEPT !.volume = max(0, min(100, value))]

\* MPVPlayer.volume_up
volume_up(self, delta) == volume_set(self, volume(self) + delta)

\* MPVPlayer.volume_down
volume_down(self, delta) == volume_set(self, volume(self) - delta)

VolumeInit ==
    /\ subject = "volume"
    /\ player = Binding_init
    /\ last = [op |-> "none", arg |-> 0, pre |-> Binding_init]
    /\ playlist = Unused /\ threads = Unused /\ library = Unused /\ disk = Unused
    /\ app = Unused /\ search_display = Unused /\ library_display = Unused

\* A volume call that takes the binding to `after`.
VolumeCall(op, arg, after) ==
    /\ subject = "volume"
    /\ player' = after
    /\ last' = [op |-> op, arg |-> arg, pre |-> player]
    /\ UNCHANGED <<subject, playlist, threads, library, disk, views>>

SetVolume == \E value \in VolumeArgs : VolumeCall("volume=", value, volume_set(player, value))

VolumeUp == \E delta \in VolumeArgs : VolumeCall("volume_up", delta, volume_up(player, delta))

VolumeDown == \E delta \in VolumeArgs : VolumeCall("volume_down", delta, volume_down(player, delta))

VolumeNext ==
    \/ SetVolume
    \/ VolumeUp
    \/ VolumeDown

SpecVolume == VolumeInit /\ [][VolumeNext]_vars

\* C23: the volume of the binding is always within 0..100; an assignment
\* below 0 stores 0, one above 100 stores 100.
C23_VolumeClamped ==
    subject = "volume"
        => /\ player.volume \in 0..100
           /\ last.op = "volume=" /\ last.arg < 0 => player.volume = 0
           /\ last.op = "volume=" /\ last.arg > 100 => player.volume = 100

C23_Witness ==
    /\ subject = "volume"
    /\ last.op = "volume_down" /\ last.pre.volume = 5 /\ last.arg = 7
    /\ player.volume = 0

\* C30: volume_down by delta >= 0 never leaves the volume higher than it was,
\* volume_up never lower, and the volume read after it was set to v in 0..100
\* is v.
C30_VolumeStepsMonotone ==
    subject = "volume"
        => /\ last.op = "volume_down" /\ last.arg >= 0
                => volume(player) <= last.pre.volume
           /\ last.op = "volume_up" /\ last.arg >= 0
                => volume(player) >= last.pre.volume
           /\ last.op = "volume=" /\ last.arg \in 0..100
                => volume(player) = last.arg

\* C29: for a folder that get_folders returns, get_tracks_in_folder returns
\* the tracks of exactly the indexed paths whose first component below the
\* music folder is that folder: none of another folder, none of a file that
\* lies in the music folder itself.
C29_FolderTracksExact ==
    subject = "get_folders" /\ last # <<>> /\ last[1].op = "get_tracks_in_folder"
        => {track.path : track \in last[1].result}
              = {path \in DOMAIN library.index : FolderOf(path) = {last[1].folder}}

----------------------------------------------------------------------------
(* The views (src/tui/components.py): SearchDisplay and LibraryDisplay      *)

\* The longest query typed.
MaxQuery == 3

\* The characters typed into a query; a str is the sequence of its characters.
Characters == {"q", "x"}

\* The lists a search may come back with.
Found == <<Track(1, "local"), Track(2, "local"), to_track(1)>>
ResultLists == {SubSeq(Found, 1, n) : n \in 0..Len(Found)}

\* SearchDisplay.__init__, and set_search_callback as LofiPlayerApp.__init__
\* calls it.
SearchDisplay_init ==
    [query |-> <<>>, results |-> <<>>, selected_index |-> 0, searching |-> FALSE]

\* _perform_search that keeps the selection where it is.
perform_search_keep_selection(self, found) ==
    IF self.query # <<>> THEN [self EXCEPT !.results = found] ELSE self

\* SearchDisplay._perform_search, where the callback returns `found`.
perform_search(self, found) ==
    IF self.query # <<>>
    THEN [self EXCEPT !.results = found, !.selected_index = 0]
    ELSE self

\* SearchDisplay.update_query
update_query(self, char, found) ==
    perform_search([self EXCEPT !.query = Append(@, char)], found)

\* SearchDisplay.backspace: query[:-1] of the empty str is the empty str.
backspace(self, found) ==
    perform_search([self EXCEPT !.query = SubSeq(@, 1, max(0, Len(@) - 1))], found)

\* SearchDisplay.clear
SearchDisplay_clear(self) ==
    [self EXCEPT !.query = <<>>, !.results = <<>>, !.selected_index = 0]

\* SearchDisplay.move_selection
SearchDisplay_move_selection(self, delta) ==
    IF self.results # <<>>
    THEN [self EXCEPT !.selected_index =
              max(0, min(Len(self.results) - 1, self.selected_index + delta))]
    ELSE self

\* SearchDisplay.get_selected
SearchDisplay_get_selected(self) ==
    IF InRange(self.selected_index, self.results)
    THEN item(self.results, self.selected_index)
    ELSE None

\* _perform_youtube_search, lines 424-427: the results of a search arrive.
results_arrive(self, found) ==
    [self EXCEPT !.results = found, !.selected_index = 0, !.searching = FALSE]

\* A list of the members of a set, in the order the dict holds them.
RECURSIVE in_dict_order(_)
in_dict_order(members) ==
    IF members = {} THEN <<>>
    ELSE LET first == CHOOSE m \in members : TRUE
         IN  <<first>> \o in_dict_order(members \ {first})

\* MusicLibrary.get_all_tracks
get_all_tracks(self) ==
    in_dict_order({TrackMetadata_to_track(self.index[path]) : path \in DOMAIN self.index})

\* A library whose index holds the given paths.
LibraryOf(paths) ==
    [index |-> [path \in paths |->
                   TrackMetadata(path, path.stem, "Unknown Artist", "Unknown Album",
                                 0, Nothing, Nothing, Nothing, 1)],
     last_scan_time |-> 1]

\* The libraries a LibraryDisplay is given.
Libraries ==
    {LibraryOf(paths) :
        paths \in SUBSET {SongA,
                          Path(MUSIC_FOLDER \o <<"rock">>, "b", ".mp3"),
                          Path(MUSIC_FOLDER \o <<"rock2">>, "h", ".mp3"),
                          Path(MUSIC_FOLDER \o <<"jazz">>, "d", ".flac")}}

\* LibraryDisplay._load_folders
load_folders(self) ==
    LET folders == get_folders(self.library)
    IN  IF folders = <<>>
        THEN [self EXCEPT !.folders = folders, !.view_mode = "tracks",
                          !.tracks_in_folder = get_all_tracks(self.library)]
        ELSE [self EXCEPT !.folders = folders]

\* LibraryDisplay.__init__
LibraryDisplay_init(lib) ==
    load_folders([library |-> lib, folders |-> <<>>, tracks_in_folder |-> <<>>,
                  selected_index |-> 0, current_folder |-> Nothing,
                  view_mode |-> "folders"])

\* LibraryDisplay.enter_folder
enter_folder(self, folder) ==
    [self EXCEPT !.current_folder = Some(folder), !.view_mode = "tracks",
                 !.tracks_in_folder =
                      in_dict_order(get_tracks_in_folder(self.library, folder)),
                 !.selected_index = 0]

\* LibraryDisplay.go_back
go_back(self) ==
    [self EXCEPT !.current_folder = Nothing, !.view_mode = "folders",
                 !.selected_index = 0]

\* The list the library view shows.
Items(self) == IF self.view_mode = "folders" THEN self.folders ELSE self.tracks_in_folder

\* LibraryDisplay.move_selection
LibraryDisplay_move_selection(self, delta) ==
    IF Items(self) # <<>>
    THEN [self EXCEPT !.selected_index =
              max(0, min(Len(Items(self)) - 1, self.selected_index + delta))]
    ELSE self

\* LibraryDisplay.get_selected: a folder name, a track, or None.
LibraryDisplay_get_selected(self) ==
    IF InRange(self.selected_index, Items(self))
    THEN [is |-> IF self.view_mode = "folders" THEN "str" ELSE "Track",
          value |-> item(Items(self), self.selected_index)]
    ELSE [is |-> "None", value |-> Nothing]

\* LibraryDisplay.update_library
update_library(self, lib) ==
    [load_folders([self EXCEPT !.library = lib])
        EXCEPT !.selected_index = 0, !.current_folder = Nothing,
               !.view_mode = "folders"]

\* The steps of a selection.
Deltas == {0 - 2, 0 - 1, 1, 2}

ViewsInit ==
    /\ subject \in {"SearchDisplay", "LibraryDisplay"}
    /\ search_display = SearchDisplay_init
    /\ library_display \in {LibraryDisplay_init(lib) : lib \in Libraries}
    /\ last = "__init__"
    /\ app = Unused /\ player = Unused /\ playlist = Unused
    /\ threads = Unused /\ library = Unused /\ disk = Unused

\* A call on the SearchDisplay that takes it to `after`.
SearchCall(op, after) ==
    /\ subject = "SearchDisplay"
    /\ search_display' = after
    /\ last' = op
    /\ UNCHANGED <<subject, player, playlist, threads, library, disk, app, library_display>>

\* A call on the LibraryDisplay that takes it to `after`.
LibraryDisplayCall(op, after) ==
    /\ subject = "LibraryDisplay"
    /\ library_display' = after
    /\ last' = op
    /\ UNCHANGED <<subject, player, playlist, threads, library, disk, app, search_display>>

UpdateQuery ==
    \E char \in Characters, found \in ResultLists :
        /\ Len(search_display.query) < MaxQuery
        /\ SearchCall("update_query", update_query(search_display, char, found))

Backspace ==
    \E found \in ResultLists :
        SearchCall("backspace", backspace(search_display, found))

Clear == SearchCall("clear", SearchDisplay_clear(search_display))

SearchMoveSelection ==
    \E delta \in Deltas :
        SearchCall("move_selection", SearchDisplay_move_selection(search_display, delta))

ResultsArrive ==
    \E found \in ResultLists :
        SearchCall("results", results_arrive(search_display, found))

EnterFolder ==
    \E folder \in {"jazz", "rock", "rock2"} :
        LibraryDisplayCall("enter_folder", enter_folder(library_display, folder))

GoBack == LibraryDisplayCall("go_back", go_back(library_display))

LibraryMoveSelection ==
    \E delta \in Deltas :
        LibraryDisplayCall("move_selection",
                           LibraryDisplay_move_selection(library_display, delta))

UpdateLibrary ==
    \E lib \in Libraries :
        LibraryDisplayCall("update_library", update_library(library_display, lib))

ViewsNext ==
    \/ UpdateQuery
    \/ Backspace
    \/ Clear
    \/ SearchMoveSelection
    \/ ResultsArrive
    \/ EnterFolder
    \/ GoBack
    \/ LibraryMoveSelection
    \/ UpdateLibrary

SpecViews == ViewsInit /\ [][ViewsNext]_vars

\* The selection is an index of the list, or 0 when the list is empty.
Selects(index, list) == IF list = <<>> THEN index = 0 ELSE InRange(index, list)

\* C21: after any sequence of calls on the library view and on the search
\* view, the selection index is an index of the list shown, or 0 when that
\* list is empty.
C21_SelectionInRange ==
    /\ subject = "LibraryDisplay"
        => Selects(library_display.selected_index, Items(library_display))
    /\ subject = "SearchDisplay"
        => Selects(search_display.selected_index, search_display.results)

C21_Witness ==
    /\ subject = "SearchDisplay"
    /\ last = "move_selection"
    /\ Len(search_display.results) = 3
    /\ search_display.selected_index = 2

----------------------------------------------------------------------------
(* LofiPlayerApp (src/tui/app.py): the keyboard thread, which runs          *)
(* handle_input on every key, the search threads handle_input starts, and   *)
(* the main loop                                                            *)

\* The most search threads a behaviour starts.
MaxSearches == 2

\* The characters typed into the query of the application.
Typed == {"q"}

\* The longest queue the keys of a behaviour build.
MaxAdded == 1

\* The names handle_input tests a key for, and the keys pressed: one for
\* every branch of handle_input.
ControlKeys == {"up", "down", "enter", "backspace", "esc", "tab", "ctrl+c"}
Printable == {"q", "x", "?", "1", "2", "/", "n", "p", "+", "=", "-", "l", "r", "a"}
Keys == ControlKeys \cup (Printable \ {"="}) \cup {"space"}

\* The library initialize() has scanned.
AppLibrary == LibraryOf({Path(MUSIC_FOLDER \o <<"rock">>, "b", ".mp3")})

\* FuzzySearcher.search_fast over the tracks initialize() indexed: with no
\* score cutoff every track is a match, and at most `limit` are returned.
search_fast(searcher_tracks, query, limit) ==
    IF query = <<>> \/ searcher_tracks = <<>> THEN <<>>
    ELSE SubSeq(searcher_tracks, 1, min(limit, Len(searcher_tracks)))

\* LofiPlayerApp._search_callback
search_callback(self, query) ==
    search_fast(get_all_tracks(self.library_display.library), query, 20)

\* A query as a number: what tells the results of one query from another's.
RECURSIVE Code(_)
Code(query) ==
    IF query = <<>> THEN 0
    ELSE 3 * Code(SubSeq(query, 1, Len(query) - 1))
            + (IF query[Len(query)] = "q" THEN 1 ELSE 2)

\* [v.to_track() for v in self.youtube.search(query, 10)]: the videos found
\* are those of the query.
youtube_search(query) == <<to_track(Code(query))>>

\* LofiPlayerApp.__init__ and initialize(), as run() leaves them when it
\* starts the keyboard thread. `started` holds the query of the thread a call
\* of handle_input starts, `raised` whether the call ends by an exception.
LofiPlayerApp_init ==
    [active_tab |-> "library", show_help |-> FALSE, running |-> TRUE,
     search_display |-> SearchDisplay_init,
     library_display |-> LibraryDisplay_init(AppLibrary),
     player |-> MPVPlayer_init,
     started |-> <<>>, raised |-> FALSE]

\* The text a key types in the search and YouTube tabs, <<>> when none.
text(key) ==
    IF key = "space" THEN <<" ">>
    ELSE IF key \in Printable THEN <<key>>
    ELSE <<>>

\* self.search_display.trigger_search(): SearchDisplay has no such method,
\* the call raises AttributeError.
trigger_search(self) == [self EXCEPT !.raised = TRUE]

\* The track _play_selected and _add_to_queue act on, None when there is none.
selected_track(self) ==
    IF self.active_tab = "library"
    THEN LET selected == LibraryDisplay_get_selected(self.library_display)
         IN  IF selected.is = "Track" THEN selected.value ELSE None
    ELSE SearchDisplay_get_selected(self.search_display)

\* LofiPlayerApp._play_selected
play_selected(self, on_disk) ==
    IF selected_track(self) # None
    THEN [self EXCEPT !.player = play_track(@, selected_track(self), FALSE, on_disk)]
    ELSE self

\* LofiPlayerApp._add_to_queue
app_add_to_queue(self, on_disk) ==
    IF selected_track(self) # None
    THEN [self EXCEPT !.player = add_to_queue(@, selected_track(self), on_disk)]
    ELSE self

\* LofiPlayerApp._move_selection
app_move_selection(self, delta) ==
    IF self.active_tab = "library"
    THEN [self EXCEPT !.library_display = LibraryDisplay_move_selection(@, delta)]
    ELSE [self EXCEPT !.search_display = SearchDisplay_move_selection(@, delta)]

\* handle_input, lines 237-262: a key typed as text in the search or YouTube
\* tab.
type_text(self, char) ==
    LET query == Append(self.search_display.query, char)
        typed == [self EXCEPT !.search_display =
                      update_query(@, char, search_callback(self, query))]
    IN  IF self.active_tab = "search" THEN trigger_search(typed)
        ELSE IF Len(query) >= 2 THEN [typed EXCEPT !.started = <<query>>]
        ELSE typed

\* handle_input, lines 329-341: backspace or esc.
go_back_or_erase(self) ==
    IF self.active_tab = "library"
    THEN IF self.library_display.view_mode = "tracks"
         THEN [self EXCEPT !.library_display = go_back(@)]
         ELSE self
    ELSE LET query == SubSeq(self.search_display.query, 1,
                             max(0, Len(self.search_display.query) - 1))
             erased == [self EXCEPT !.search_display =
                            backspace(@, search_callback(self, query))]
         IN  IF self.active_tab = "search" THEN trigger_search(erased) ELSE erased

\* handle_input, lines 316-328: enter.
enter(self, on_disk) ==
    IF self.active_tab = "library"
          /\ LibraryDisplay_get_selected(self.library_display).is = "str"
    THEN [self EXCEPT !.library_display =
              enter_folder(@, LibraryDisplay_get_selected(self.library_display).value)]
    ELSE play_selected(self, on_disk)

\* handle_input, lines 265-272: tab cycles library, youtube, search.
cycle_tab(self) ==
    [self EXCEPT !.active_tab = CASE @ = "library" -> "youtube"
                                  [] @ = "youtube" -> "search"
                                  [] OTHER -> "library"]

\* handle_input that quits on q before it looks at the tab or the help panel.
handle_input_quit_first(self, key, on_disk) ==
    IF key \in {"ctrl+c", "q"} THEN [self EXCEPT !.running = FALSE] ELSE self

\* LofiPlayerApp.handle_input. toggle_pause, volume_up, volume_down and
\* seek_relative set properties of the mpv binding (pause, volume, time-pos)
\* and leave the fields of the application and of MPVPlayer as they are.
handle_input(self, key, on_disk) ==
    IF key = "ctrl+c" THEN [self EXCEPT !.running = FALSE]
    ELSE IF self.active_tab \in {"search", "youtube"} /\ key \notin ControlKeys
               /\ text(key) # <<>>
    THEN type_text(self, text(key)[1])
    ELSE IF key = "tab" THEN cycle_tab(self)
    ELSE IF key = "?" THEN [self EXCEPT !.show_help = ~@]
    ELSE IF self.show_help THEN [self EXCEPT !.show_help = FALSE]
    ELSE CASE key = "1" -> [self EXCEPT !.active_tab = "library"]
           [] key = "2" -> [self EXCEPT !.active_tab = "youtube"]
           [] key = "/" -> [self EXCEPT !.active_tab = "search"]
           [] key \in {"space", "+", "=", "-", "l", "shift+right"} -> self
           [] key \in {"n", "right"} -> [self EXCEPT !.player = next(@, on_disk)]
           [] key \in {"p", "left"} -> [self EXCEPT !.player = prev(@, on_disk)]
           [] key = "r" -> [self EXCEPT !.player = cycle_loop_mode(@)]
           [] key = "up" -> app_move_selection(self, 0 - 1)
           [] key = "down" -> app_move_selection(self, 1)
           [] key = "enter" -> enter(self, on_disk)
           [] key \in {"backspace", "esc"} -> go_back_or_erase(self)
           [] key = "a" -> app_add_to_queue(self, on_disk)
           [] key = "q" -> [self EXCEPT !.running = FALSE]
           [] OTHER -> self

\* A search thread: the query it was started with and the statement of
\* _perform_youtube_search it runs next.
SearchThread(query) == [query |-> query, at |-> "searching = True"]

\* The application object, as the variables hold it.
Me_app ==
    [active_tab |-> app.active_tab, show_help |-> app.show_help,
     running |-> app.running, search_display |-> search_display,
     library_display |-> library_display, player |-> Fresh(player),
     started |-> <<>>, raised |-> FALSE]

AppInit ==
    /\ subject = "LofiPlayerApp"
    /\ app = [active_tab |-> LofiPlayerApp_init.active_tab,
              show_help |-> LofiPlayerApp_init.show_help,
              running |-> LofiPlayerApp_init.running]
    /\ search_display = LofiPlayerApp_init.search_display
    /\ library_display = LofiPlayerApp_init.library_display
    /\ player = LofiPlayerApp_init.player
    /\ threads = [keyboard |-> "alive", searches |-> <<>>]
    /\ last = Unused /\ playlist = Unused /\ library = Unused /\ disk = Unused

\* KeyboardHandler._run_unix, one turn of its loop: the key read is passed
\* to handle_input; an exception leaves the loop and ends the thread.
HandleInput(key, on_disk) ==
    /\ subject = "LofiPlayerApp"
    /\ threads.keyboard = "alive"
    /\ \E after \in {handle_input(Me_app, key, on_disk)} :
        /\ Len(after.search_display.query) <= MaxQuery
        /\ \A i \in DOMAIN after.search_display.query :
               after.search_display.query[i] \in Typed
        /\ Len(threads.searches) + Len(after.started) <= MaxSearches
        /\ Len(after.player.queue) <= MaxAdded
        /\ app' = [active_tab |-> after.active_tab, show_help |-> after.show_help,
                   running |-> after.running]
        /\ search_display' = after.search_display
        /\ library_display' = after.library_display
        /\ player' = Fresh(after.player)
        /\ threads' = [keyboard |-> IF after.raised THEN "dead" ELSE "alive",
                       searches |-> threads.searches
                                       \o [i \in DOMAIN after.started |->
                                              SearchThread(after.started[i])]]
        /\ UNCHANGED <<subject, playlist, last, library, disk>>

\* The files initialize() has scanned are on the disk.
KeyPressed == \E key \in Keys : HandleInput(key, TRUE)

\* One statement of search thread i, which takes the search view to `view`.
SearchStep(i, from, to, view) ==
    /\ subject = "LofiPlayerApp"
    /\ i \in DOMAIN threads.searches
    /\ threads.searches[i].at = from
    /\ threads' = [threads EXCEPT !.searches[i].at = to]
    /\ search_display' = view
    /\ UNCHANGED <<subject, player, playlist, last, library, disk, app, library_display>>

\* _perform_youtube_search, line 419
SearchBegins ==
    \E i \in 1..MaxSearches :
        /\ i \in DOMAIN threads.searches
        /\ SearchStep(i, "searching = True", "results =",
                      [search_display EXCEPT !.searching = TRUE])

\* _perform_youtube_search, lines 423-424
SearchSetsResults ==
    \E i \in 1..MaxSearches :
        /\ i \in DOMAIN threads.searches
        /\ SearchStep(i, "results =", "selected_index = 0",
                      [search_display EXCEPT
                          !.results = youtube_search(threads.searches[i].query)])

\* _perform_youtube_search, line 425
SearchSetsIndex ==
    \E i \in 1..MaxSearches :
        /\ i \in DOMAIN threads.searches
        /\ SearchStep(i, "selected_index = 0", "searching = False",
                      [search_display EXCEPT !.selected_index = 0])

\* _perform_youtube_search, lines 426-428
SearchEnds ==
    \E i \in 1..MaxSearches :
        /\ i \in DOMAIN threads.searches
        /\ SearchStep(i, "searching = False", "returned",
                      [search_display EXCEPT !.searching = FALSE])

\* LofiPlayerApp.run, lines 447-465: the main loop has seen running False
\* and stops the keyboard thread; cleanup terminates the player.
MainLoopEnds ==
    /\ subject = "LofiPlayerApp"
    /\ ~app.running
    /\ threads.keyboard # "stopped"
    /\ threads' = [threads EXCEPT !.keyboard = "stopped"]
    /\ player' = Fresh(stop(Fresh(player)))
    /\ UNCHANGED <<subject, playlist, last, library, disk, app, search_display, library_display>>

AppNext ==
    \/ KeyPressed
    \/ SearchBegins
    \/ SearchSetsResults
    \/ SearchSetsIndex
    \/ SearchEnds
    \/ MainLoopEnds

SpecApp == AppInit /\ [][AppNext]_vars

\* C24: in every state of the application, handling the key q or the key
\* ctrl+c sets running to False.
C24_QuitKeysQuit ==
    [][\A key \in {"q", "ctrl+c"} : HandleInput(key, TRUE) => ~app'.running]_vars

\* C26: while the application is running its keyboard thread is alive: no
\* key makes handle_input raise.
C26_KeyboardThreadAlive ==
    subject = "LofiPlayerApp" /\ app.running => threads.keyboard = "alive"

\* A search thread is between its start and its return.
InFlight == \E i \in DOMAIN threads.searches : threads.searches[i].at # "returned"

\* The step is none of a search thread.
OtherSide == threads'.searches = threads.searches \/ Len(threads'.searches) > Len(threads.searches)

\* C22: results, selected_index and searching are written by the search
\* thread only; while a search is in flight a step of the other side leaves
\* them as they are, or clears them.
C22_OnlySearchThreadWrites ==
    [][subject = "LofiPlayerApp" /\ InFlight /\ OtherSide
          => \/ /\ search_display'.results = search_display.results
                /\ search_display'.selected_index = search_display.selected_index
                /\ search_display'.searching = search_display.searching
             \/ /\ search_display'.results = <<>>
                /\ search_display'.selected_index = 0
                /\ search_display'.searching = FALSE]_vars

\* C27: once every search started has returned, and the query is still the
\* one the last search was started for, the results shown are those of that
\* query.
C27_LatestQueryWins ==
    (/\ subject = "LofiPlayerApp"
     /\ Len(threads.searches) >= 2
     /\ \A i \in DOMAIN threads.searches : threads.searches[i].at = "returned"
     /\ search_display.query = threads.searches[Len(threads.searches)].query)
        => search_display.results = youtube_search(search_display.query)

====
